---- MODULE Spec2Model ----
(***************************************************************************)
(* BeatSample Organizer (src/beat_organizer.py): the directory scan, the   *)
(* per-file analysis run on a thread pool, and the get-or-create / usage   *)
(* registration against the backing store.                                 *)
(*                                                                         *)
(* Paths are sequences of one-character strings, so that the extension     *)
(* tests and os.path.splitext / os.path.basename are computed as the code  *)
(* computes them.  The theme argument only selects a plot style and is     *)
(* left out.  Store statements are atomic and visible at once.             *)
(***************************************************************************)
EXTENDS Integers, Sequences, FiniteSets

\* ------------------------------------------------------------- bounds ----
MaxFiles == 2         \* directory entries under the root, one invocation
MaxScans == 2         \* overlapping or successive scan invocations
MaxSharedTasks == 2   \* worker tasks in all, when several invocations run
MaxFaults == 1        \* failures injected into collaborators and store per run

\* ------------------------------------------------- absent values (None) --
NoneNum == -1
NoneStr == "None"
NonePath == << >>
NoResult == << >>

\* --------------------------------------------------------- path algebra --
SEP == "/"
EXTSEP == "."

AUDIO_EXTENSIONS ==
    { <<".", "m", "p", "3">>, <<".", "w", "a", "v">>, <<".", "f", "l", "a", "c">>,
      <<".", "o", "g", "g">>, <<".", "a", "i", "f", "f">> }

DAW_EXTENSIONS ==
    { <<".", "a", "l", "s">>, <<".", "f", "l", "p">>,
      <<".", "l", "o", "g", "i", "c", "x">>, <<".", "p", "t", "x">> }

UpperToLower == [c \in {"A", "V", "W"} |-> CASE c = "A" -> "a" [] c = "V" -> "v" [] c = "W" -> "w"]

Lower(str) == [k \in 1..Len(str) |-> IF str[k] \in DOMAIN UpperToLower THEN UpperToLower[str[k]] ELSE str[k]]

EndsWith(str, suffix) ==
    /\ Len(str) >= Len(suffix)
    /\ SubSeq(str, Len(str) - Len(suffix) + 1, Len(str)) = suffix

RFind(str, c) ==
    LET hits == {k \in 1..Len(str) : str[k] = c}
    IN IF hits = {} THEN 0 ELSE CHOOSE k \in hits : \A m \in hits : m <= k

Join(root, file) == root \o <<SEP>> \o file

Basename(path) == SubSeq(path, RFind(path, SEP) + 1, Len(path))

\* os.path.splitext(path)[0]: cut at the last dot of the last component,
\* unless that component has nothing but dots before it.
SplitextBase(path) ==
    LET sepIndex == RFind(path, SEP)
        dotIndex == RFind(path, EXTSEP)
    IN IF /\ dotIndex > sepIndex
          /\ \E k \in (sepIndex + 1)..(dotIndex - 1) : path[k] # EXTSEP
       THEN SubSeq(path, 1, dotIndex - 1)
       ELSE path

SpecPath(filepath) ==
    SplitextBase(filepath) \o <<"_", "s", "p", "e", "c", "t", "r", "o", "g", "r", "a", "m", ".", "p", "n", "g">>

IsAudio(file) == \E ext \in AUDIO_EXTENSIONS : EndsWith(Lower(file), ext)

IsDaw(file) == \E ext \in DAW_EXTENSIONS : EndsWith(file, ext)

\* ------------------------------------------------- the scanned directory --
RootDir == <<"d">>
SubDir == <<"d", "/", "s">>

FileNames ==
    { <<"a", ".", "W", "A", "V">>, <<"a", ".", "m", "p", "3">>, <<"p", ".", "a", "l", "s">> }

Listings(n) ==
    { l \in UNION { [1..k -> FileNames] : k \in 0..n } :
        \A i, j \in 1..Len(l) : i # j => l[i] # l[j] }

\* what os.walk yields for the root: (dirpath, filenames) top-down
Trees(n) ==
    { IF l2 = << >> THEN << [root |-> RootDir, files |-> l1] >>
      ELSE << [root |-> RootDir, files |-> l1], [root |-> SubDir, files |-> l2] >> :
        <<l1, l2>> \in { p \in Listings(n) \X Listings(n) : Len(p[1]) + Len(p[2]) <= n } }

Scans == 1..MaxScans
ProjectId == 7

VARIABLES
    rootExists,        \* the directory argument names a readable directory
    tree,              \* its content, in os.walk order
    invocations,       \* number of scan invocations clients make
    faults,            \* failures collaborators and store may still raise
    phase,             \* per invocation: "idle", "collecting", "returned", "raised"
    generate_spec,     \* per invocation: the generate_spec argument
    files_to_process,  \* per invocation: discovered audio paths
    daw_projects,      \* per invocation: discovered project files
    task,              \* per invocation: one worker task per discovered path
    collected,         \* per invocation: results consumed from executor.map
    samples,           \* per invocation: the list being returned
    done_order,        \* per invocation: task indexes in completion order
    samples_table,     \* rows of table samples
    sample_usage,      \* rows of table sample_usage
    next_id,           \* serial of samples.id
    images,            \* spectrogram files on disk: path -> audio file rendered
    overlapped         \* some invocation started while another was running

vars == << rootExists, tree, invocations, faults, phase, generate_spec,
           files_to_process, daw_projects, task, collected, samples, done_order,
           samples_table, sample_usage, next_id, images, overlapped >>

env == << rootExists, tree, invocations >>

\* ------------------------------------------------------------ discovery --
\* os.walk with the default onerror=None swallows the error of listing a
\* missing or unreadable top directory and yields nothing.
Walk == IF rootExists THEN tree ELSE << >>

RECURSIVE Flatten(_, _)
Flatten(walk, kept) ==
    IF walk = << >> THEN << >>
    ELSE LET e == Head(walk)
             fs == SelectSeq(e.files, LAMBDA f : f \in kept)
         IN [k \in 1..Len(fs) |-> Join(e.root, fs[k])] \o Flatten(Tail(walk), kept)

FilesToProcess == Flatten(Walk, {f \in FileNames : IsAudio(f)})

scan_daw_files == Flatten(Walk, {f \in FileNames : IsDaw(f)})

\* ------------------------------------------------------------- analysis --
ContainerOutcomes == {"ok", "raise", "none"}

\* failures charged to the run's budget
Cost(flags) == Cardinality({k \in DOMAIN flags : flags[k]})

Charge(flags) ==
    /\ Cost(flags) <= faults
    /\ faults' = faults - Cost(flags)

get_bpm(fails) == IF fails THEN NoneNum ELSE 120

get_key(fails) == IF fails THEN NoneStr ELSE "C"

NewTask(filepath) ==
    [ pc |-> "queued", file |-> filepath, container |-> "pending",
      bpm |-> NoneNum, key |-> NoneStr, spec_path |-> NonePath,
      sample_id |-> NoneNum, ran |-> << >>, failed |-> {}, res |-> NoResult ]

\* variant: the test of the container result is dropped
ContainerUsableAlways(outcome) == TRUE

\* `if audio and audio.info`
ContainerUsable(outcome) == outcome = "ok"

\* variant: registration is started without rendering
AfterAnalysisSkipsRender(gen) == "lookup"

\* control flow of process_file after get_key
AfterAnalysis(gen) == IF gen THEN "spectrogram" ELSE "lookup"

\* variant: process_file without its except clause
OnExceptionPropagates(t, stage) ==
    [t EXCEPT !.pc = "raised", !.failed = @ \cup {stage}, !.res = NoResult]

\* the except clause of process_file: log, fall through to `return None`
OnException(t, stage) ==
    [t EXCEPT !.pc = "done", !.failed = @ \cup {stage}, !.res = NoResult]

\* the dict returned by process_file
Record(t) ==
    [ sample_id |-> t.sample_id, filename |-> Basename(t.file), path |-> t.file,
      duration |-> 2, sample_rate |-> 44100, bpm |-> t.bpm, key |-> t.key,
      spectrogram |-> t.spec_path ]

SetTask(s, i, t) ==
    /\ task' = [task EXCEPT ![s][i] = t]
    /\ done_order' = IF t.pc \in {"done", "raised"}
                     THEN [done_order EXCEPT ![s] = Append(@, i)]
                     ELSE done_order

Init ==
    /\ rootExists \in BOOLEAN
    /\ tree \in Trees(MaxFiles)
    /\ ~rootExists => tree = << [root |-> RootDir, files |-> << >>] >>
    /\ invocations \in 1..MaxScans
    /\ faults \in {0, MaxFaults}
    /\ \/ invocations = 1
       \/ faults = 0 /\ invocations * Len(Flatten(tree, FileNames)) <= MaxSharedTasks
    /\ phase = [s \in Scans |-> "idle"]
    /\ generate_spec = [s \in Scans |-> FALSE]
    /\ files_to_process = [s \in Scans |-> << >>]
    /\ daw_projects = [s \in Scans |-> << >>]
    /\ task = [s \in Scans |-> << >>]
    /\ collected = [s \in Scans |-> 0]
    /\ samples = [s \in Scans |-> << >>]
    /\ done_order = [s \in Scans |-> << >>]
    /\ samples_table = {}
    /\ sample_usage = {}
    /\ next_id = 1
    /\ images = {}
    /\ overlapped = FALSE

\* scan_directory_async up to the executor.map call (or straight to the
\* return when nothing was discovered)
ScanStart(s) ==
    /\ phase[s] = "idle"
    /\ s <= invocations
    /\ \E gen \in BOOLEAN :
        /\ generate_spec' = [generate_spec EXCEPT ![s] = gen]
    /\ files_to_process' = [files_to_process EXCEPT ![s] = FilesToProcess]
    /\ daw_projects' = [daw_projects EXCEPT ![s] = scan_daw_files]
    /\ task' = [task EXCEPT ![s] = [k \in 1..Len(FilesToProcess) |-> NewTask(FilesToProcess[k])]]
    /\ phase' = [phase EXCEPT ![s] = IF FilesToProcess = << >> THEN "returned" ELSE "collecting"]
    /\ overlapped' = (overlapped \/ \E o \in Scans : phase[o] = "collecting")
    /\ UNCHANGED << env, faults, collected, samples, done_order, samples_table, sample_usage,
                    next_id, images >>

\* process_file: AudioFile(filepath), get_bpm, get_key
Analyze(s, i) ==
    /\ phase[s] = "collecting"
    /\ i \in 1..Len(task[s])
    /\ task[s][i].pc = "queued"
    /\ \E c \in ContainerOutcomes, bf \in BOOLEAN, kf \in BOOLEAN :
        /\ Charge(<<c # "ok", bf, kf>>)
        /\ c # "ok" => ~bf /\ ~kf
        /\ LET t == [task[s][i] EXCEPT !.container = c, !.ran = Append(@, "container")]
           IN IF c = "raise" THEN SetTask(s, i, OnException(t, "container"))
              ELSE IF ~ContainerUsable(c)
              THEN SetTask(s, i, [t EXCEPT !.pc = "done", !.failed = @ \cup {"container"}])
              ELSE SetTask(s, i, [t EXCEPT !.pc = AfterAnalysis(generate_spec[s]),
                                           !.bpm = get_bpm(bf), !.key = get_key(kf),
                                           !.ran = @ \o <<"tempo", "key">>,
                                           !.failed = @ \cup (IF bf THEN {"tempo"} ELSE {})
                                                        \cup (IF kf THEN {"key"} ELSE {})])
    /\ UNCHANGED << env, phase, generate_spec, files_to_process, daw_projects, collected,
                    samples, samples_table, sample_usage, next_id, images, overlapped >>

\* process_file lines 138-140 and generate_spectrogram, which swallows its
\* own exception: spec_path is assigned before the call
GenerateSpectrogram(s, i) ==
    /\ phase[s] = "collecting"
    /\ i \in 1..Len(task[s])
    /\ task[s][i].pc = "spectrogram"
    /\ \E sf \in BOOLEAN :
        LET t == task[s][i]
            out == SpecPath(t.file)
        IN /\ Charge(<<sf>>)
           /\ SetTask(s, i, [t EXCEPT !.pc = "lookup", !.spec_path = out,
                                      !.ran = Append(@, "spectrogram"),
                                      !.failed = @ \cup (IF sf THEN {"spectrogram"} ELSE {})])
           /\ images' = IF sf THEN images
                        ELSE {im \in images : im.path # out} \cup {[path |-> out, src |-> t.file]}
    /\ UNCHANGED << env, phase, generate_spec, files_to_process, daw_projects, collected,
                    samples, samples_table, sample_usage, next_id, overlapped >>

\* variant: the lookup never finds the row
SelectNothing(path) == {}

\* SELECT id FROM samples WHERE path = %s
SelectSample(path) == {r \in samples_table : r.path = path}

\* get_or_create_sample, the SELECT and fetchone
Lookup(s, i) ==
    /\ phase[s] = "collecting"
    /\ i \in 1..Len(task[s])
    /\ task[s][i].pc = "lookup"
    /\ \E f \in BOOLEAN :
        LET t == [task[s][i] EXCEPT !.ran = Append(@, "lookup")]
            result == SelectSample(t.file)
        IN /\ Charge(<<f>>)
           /\ IF f THEN SetTask(s, i, OnException(t, "lookup"))
              ELSE IF result # {}
              THEN \E r \in result : SetTask(s, i, [t EXCEPT !.pc = "usage", !.sample_id = r.id])
              ELSE SetTask(s, i, [t EXCEPT !.pc = "insert"])
    /\ UNCHANGED << env, phase, generate_spec, files_to_process, daw_projects, collected,
                    samples, samples_table, sample_usage, next_id, images, overlapped >>

\* get_or_create_sample, the INSERT ... RETURNING id
Insert(s, i) ==
    /\ phase[s] = "collecting"
    /\ i \in 1..Len(task[s])
    /\ task[s][i].pc = "insert"
    /\ \E f \in BOOLEAN :
        LET t == [task[s][i] EXCEPT !.ran = Append(@, "insert")]
        IN /\ Charge(<<f>>)
           /\ IF f
              THEN /\ SetTask(s, i, OnException(t, "insert"))
                   /\ UNCHANGED << samples_table, next_id >>
              ELSE /\ SetTask(s, i, [t EXCEPT !.pc = "usage", !.sample_id = next_id])
                   /\ samples_table' = samples_table \cup {[id |-> next_id, path |-> t.file]}
                   /\ next_id' = next_id + 1
    /\ UNCHANGED << env, phase, generate_spec, files_to_process, daw_projects, collected,
                    samples, sample_usage, images, overlapped >>

\* track_sample_usage, then the return of the record
TrackUsage(s, i) ==
    /\ phase[s] = "collecting"
    /\ i \in 1..Len(task[s])
    /\ task[s][i].pc = "usage"
    /\ \E f \in BOOLEAN :
        LET t == [task[s][i] EXCEPT !.ran = Append(@, "usage")]
        IN /\ Charge(<<f>>)
           /\ IF f
              THEN /\ SetTask(s, i, OnException(t, "usage"))
                   /\ UNCHANGED sample_usage
              ELSE /\ SetTask(s, i, [t EXCEPT !.pc = "done", !.res = <<Record(t)>>])
                   /\ sample_usage' = sample_usage \cup
                         {[row |-> Cardinality(sample_usage) + 1, sample_id |-> t.sample_id,
                           user_id |-> s, project_id |-> ProjectId]}
    /\ UNCHANGED << env, phase, generate_spec, files_to_process, daw_projects, collected,
                    samples, samples_table, next_id, images, overlapped >>

\* variant: results are taken as they complete
NextSlotAsCompleted(s) ==
    IF collected[s] < Len(done_order[s]) THEN done_order[s][collected[s] + 1] ELSE collected[s] + 1

\* executor.map yields results by position
NextSlot(s) == collected[s] + 1

\* samples.extend(filter(None, results)): one result consumed
Collect(s) ==
    /\ phase[s] = "collecting"
    /\ collected[s] < Len(task[s])
    /\ NextSlot(s) \in 1..Len(task[s])
    /\ LET t == task[s][NextSlot(s)]
       IN /\ t.pc \in {"done", "raised"}
          /\ IF t.pc = "raised"
             THEN /\ phase' = [phase EXCEPT ![s] = "raised"]
                  /\ UNCHANGED << samples, collected >>
             ELSE /\ samples' = [samples EXCEPT ![s] = IF t.res # NoResult THEN @ \o t.res ELSE @]
                  /\ collected' = [collected EXCEPT ![s] = @ + 1]
                  /\ UNCHANGED phase
    /\ UNCHANGED << env, faults, generate_spec, files_to_process, daw_projects, task, done_order,
                    samples_table, sample_usage, next_id, images, overlapped >>

\* leaving the with block, the log line and `return samples`
ScanReturn(s) ==
    /\ phase[s] = "collecting"
    /\ collected[s] = Len(task[s])
    /\ phase' = [phase EXCEPT ![s] = "returned"]
    /\ UNCHANGED << env, faults, generate_spec, files_to_process, daw_projects, task, collected,
                    samples, done_order, samples_table, sample_usage, next_id, images, overlapped >>

Next ==
    \/ \E s \in Scans : ScanStart(s)
    \/ \E s \in Scans, i \in 1..(MaxFiles + 1) : Analyze(s, i)
    \/ \E s \in Scans, i \in 1..(MaxFiles + 1) : GenerateSpectrogram(s, i)
    \/ \E s \in Scans, i \in 1..(MaxFiles + 1) : Lookup(s, i)
    \/ \E s \in Scans, i \in 1..(MaxFiles + 1) : Insert(s, i)
    \/ \E s \in Scans, i \in 1..(MaxFiles + 1) : TrackUsage(s, i)
    \/ \E s \in Scans : Collect(s)
    \/ \E s \in Scans : ScanReturn(s)

Spec == Init /\ [][Next]_vars

\* ---------------------------------------------------------- properties --
StoreStages == {"lookup", "insert", "usage"}

Tasks(s) == 1..Len(task[s])

RowsFor(path) == {r \in samples_table : r.path = path}

UsageFor(id, user) == {u \in sample_usage : u.sample_id = id /\ u.user_id = user}

Reported(s, path) == \E k \in 1..Len(samples[s]) : samples[s][k].path = path

StoreStarted(t) == \E k \in 1..Len(t.ran) : t.ran[k] \in StoreStages

RegistrationFailed(t) == t.failed \cap StoreStages # {}

\* C1: the records of a scan appear in the order in which their files were
\* discovered, whatever the order in which the worker tasks completed.
C1_OutputOrderIsDiscoveryOrder ==
    \A s \in Scans : \A a, b \in 1..Len(samples[s]) :
        a < b =>
            \E i, j \in 1..Len(files_to_process[s]) :
                /\ files_to_process[s][i] = samples[s][a].path
                /\ files_to_process[s][j] = samples[s][b].path
                /\ i < j

C1_Witness ==
    \E s \in Scans :
        /\ phase[s] = "returned"
        /\ Len(samples[s]) >= 2
        /\ \E a, b \in 1..Len(done_order[s]) : a < b /\ done_order[s][a] > done_order[s][b]

\* C2: the samples table never holds two rows with the same path.
C2_AtMostOneRowPerPath ==
    \A r1, r2 \in samples_table : r1.path = r2.path => r1 = r2

\* C3: when invocations register the same path one after the other and no
\* store operation fails, the table holds exactly one row for the path, each
\* invocation's user has exactly one usage row for that row's id, and every
\* invocation reports that id.
C3_SequentialRegistrationIsIdempotent ==
    \A s1, s2 \in Scans :
        ( /\ s1 # s2
          /\ ~overlapped
          /\ phase[s1] = "returned" /\ phase[s2] = "returned"
          /\ \A s \in {s1, s2} : \A i \in Tasks(s) : task[s][i].failed = {} )
        => \A i \in Tasks(s1) :
              LET path == task[s1][i].file
              IN /\ Cardinality(RowsFor(path)) = 1
                 /\ \A r \in RowsFor(path) :
                       /\ Cardinality(UsageFor(r.id, s1)) = 1
                       /\ Cardinality(UsageFor(r.id, s2)) = 1
                       /\ \A s \in {s1, s2} : \E k \in 1..Len(samples[s]) :
                             samples[s][k].path = path /\ samples[s][k].sample_id = r.id

C3_Witness ==
    \E s1, s2 \in Scans :
        /\ s1 # s2
        /\ ~overlapped
        /\ phase[s1] = "returned" /\ phase[s2] = "returned"
        /\ Len(samples[s1]) >= 1 /\ Len(samples[s2]) >= 1
        /\ Cardinality(sample_usage) >= 2

\* C4: for a file whose container was read and whose registration did not
\* fail, a failed optional stage still yields a record in which the field of
\* the failed stage is absent and the fields of the other stages are present.
C4_FailedStageFieldIsAbsent ==
    \A s \in Scans : \A i \in Tasks(s) :
        LET t == task[s][i]
        IN (t.pc = "done" /\ t.container = "ok" /\ ~RegistrationFailed(t))
           => /\ t.res # NoResult
              /\ ("tempo" \in t.failed) <=> (t.res[1].bpm = NoneNum)
              /\ ("key" \in t.failed) <=> (t.res[1].key = NoneStr)
              /\ ("spectrogram" \in t.failed) => (t.res[1].spectrogram = NonePath)

\* C5: a file that was analysed and whose registration failed still has its
\* record in the report the scan returns.
C5_RegistrationFailureKeepsRecord ==
    \A s \in Scans :
        phase[s] = "returned" =>
            \A i \in Tasks(s) :
                (task[s][i].container = "ok" /\ RegistrationFailed(task[s][i]))
                => Reported(s, task[s][i].file)

\* a step of invocation s: one of its worker tasks, or its collecting thread
ScanStep(s) ==
    \/ \E i \in Tasks(s) : Analyze(s, i) \/ GenerateSpectrogram(s, i) \/ Lookup(s, i)
                             \/ Insert(s, i) \/ TrackUsage(s, i)
    \/ Collect(s)
    \/ ScanReturn(s)

\* C6: no scan ends by raising, a running scan can always take a step
\* towards its return, and a returned scan reports every file whose
\* container was read and whose own processing did not fail, whatever
\* happened to the other files.
C6_FailureIsolatedToFile ==
    \A s \in Scans :
        /\ phase[s] # "raised"
        /\ phase[s] = "collecting" => ENABLED ScanStep(s)
        /\ phase[s] = "returned" =>
              \A i \in Tasks(s) :
                  (task[s][i].container = "ok" /\ ~RegistrationFailed(task[s][i]))
                  => Reported(s, task[s][i].file)

C6_Witness ==
    \E s \in Scans :
        /\ phase[s] = "returned"
        /\ \E i, j \in Tasks(s) :
              /\ task[s][i].failed \cap ({"container"} \cup StoreStages) # {}
              /\ task[s][i].res = NoResult
              /\ task[s][j].failed \cap ({"container"} \cup StoreStages) = {}
              /\ Reported(s, task[s][j].file)

\* C7: a scan of a missing or unreadable root never returns normally.
C7_MissingRootNeverReturns ==
    \A s \in Scans : ~rootExists => phase[s] # "returned"

C9_RecordsOnlyForReadContainers ==
    \A s \in Scans :
        /\ \A k \in 1..Len(samples[s]) :
              \E i \in Tasks(s) :
                  task[s][i].file = samples[s][k].path /\ task[s][i].container = "ok"
        /\ \A i \in Tasks(s) :
              LET t == task[s][i]
              IN t.container \in {"raise", "none"} =>
                   /\ t.res = NoResult
                   /\ ~Reported(s, t.file)
                   /\ ~StoreStarted(t)
                   /\ t.sample_id = NoneNum
                   /\ RowsFor(t.file) = {}

C9_Witness ==
    \E s \in Scans :
        /\ phase[s] = "returned"
        /\ \E i, j \in Tasks(s) :
              /\ task[s][i].container \in {"raise", "none"}
              /\ Reported(s, task[s][j].file)

\* C10: with rendering requested, distinct discovered files derive distinct
\* image paths, and the image a record names was rendered from its own file.
C10_DistinctSpectrogramPaths ==
    \A s \in Scans :
        generate_spec[s] =>
            /\ \A i, j \in Tasks(s) :
                  i # j => SpecPath(task[s][i].file) # SpecPath(task[s][j].file)
            /\ phase[s] = "returned" =>
                  \A i \in Tasks(s) :
                      (task[s][i].res # NoResult /\ "spectrogram" \notin task[s][i].failed)
                      => [path |-> task[s][i].res[1].spectrogram, src |-> task[s][i].file] \in images
====
